---- MODULE Spec2Model ----
(***************************************************************************)
(* A model of flows/distributions.py: the Distribution factories Normal,   *)
(* GenNormal, GMM and Flow, their init_fun, and the log_pdf / sample       *)
(* closures init_fun returns.                                              *)
(*                                                                         *)
(* Arrays are records [shape, data] with data in row-major order.  Real    *)
(* numbers are modelled by integers: log-densities are in base-2 units,    *)
(* so that Log and Exp are exact inverses on the weights the model uses.   *)
(* A raised exception is the value Err.  Every operation returns           *)
(* [out, ev]: its result and the trace of the calls, splits and draws it   *)
(* made, in program order.                                                 *)
(***************************************************************************)
EXTENDS Integers, Sequences, FiniteSets, TLC

\* Bounds of the model.
MaxN == 2
MaxDim == 2
MaxComp == 2
MaxParam == 2
Frac == 4

\* The values a batch entry takes, and the PRNG keys a caller starts from.
Vals == {0, 1}
Keys == {<<0>>, <<1>>}

\* The value of an out-of-bounds gather under mode "fill".
NaN == 0 - 1000

Err == [err |-> "ShapeMismatch"]
IsErr(x) == "err" \in DOMAIN x
Ret(out, ev) == [out |-> out, ev |-> ev]

----------------------------------------------------------------------------
\* Arrays

Arr(shape, data) == [shape |-> shape, data |-> data]

RECURSIVE SumSeq(_)
SumSeq(s) == IF s = <<>> THEN 0 ELSE Head(s) + SumSeq(Tail(s))

RECURSIVE MaxSeq(_)
MaxSeq(s) ==
    IF Len(s) = 1 THEN s[1]
    ELSE LET m == MaxSeq(Tail(s)) IN IF s[1] > m THEN s[1] ELSE m

MinOf(a, b) == IF a < b THEN a ELSE b

\* a[i, j] of a 2-d array, 1-based.
At2(a, i, j) == a.data[(i - 1) * a.shape[2] + j]

\* Row i of a 2-d array.
Row(a, i) == [j \in 1..a.shape[2] |-> At2(a, i, j)]

\* a.sum(1): the sum over axis 1; axis 1 does not exist below two dimensions.
Sum1(a) ==
    IF Len(a.shape) # 2 THEN Err
    ELSE Arr(<<a.shape[1]>>, [i \in 1..a.shape[1] |-> SumSeq(Row(a, i))])

\* a + b of two arrays under numpy broadcasting, for the shapes that occur.
AddArrays(a, b) ==
    IF a.shape = b.shape
    THEN Arr(a.shape, [i \in 1..Len(a.data) |-> a.data[i] + b.data[i]])
    ELSE Err

\* The sum reduced over the samples: what log_probs + log_det must not be.
AddReduced(a, b) ==
    Arr(<<>>, <<SumSeq(a.data) + SumSeq(b.data)>>)

Add(a, b) ==
    IF IsErr(a) \/ IsErr(b) THEN Err ELSE AddArrays(a, b)

\* np.vstack of K vectors of length N: a K x N array.
Vstack(vs) ==
    IF \E k \in 1..Len(vs) : IsErr(vs[k]) THEN Err
    ELSE IF \E k \in 1..Len(vs) : vs[k].shape # vs[1].shape THEN Err
    ELSE LET n == vs[1].shape[1]
         IN  Arr(<<Len(vs), n>>,
                 [e \in 1..(Len(vs) * n) |->
                     vs[((e - 1) \div n) + 1].data[((e - 1) % n) + 1]])

\* np.dstack of K arrays of shape N x D: an N x D x K array.
Dstack(cs) ==
    IF \E k \in 1..Len(cs) : cs[k].shape # cs[1].shape THEN Err
    ELSE LET k == Len(cs)
             n == cs[1].shape[1]
             d == cs[1].shape[2]
         IN  Arr(<<n, d, k>>,
                 [e \in 1..(n * d * k) |->
                     cs[((e - 1) % k) + 1].data[((e - 1) \div k) + 1]])

\* np.squeeze: every axis of length 1 is removed.
RECURSIVE DropOnes(_)
DropOnes(s) ==
    IF s = <<>> THEN <<>>
    ELSE IF Head(s) = 1 THEN DropOnes(Tail(s))
    ELSE <<Head(s)>> \o DropOnes(Tail(s))

Squeeze(a) == Arr(DropOnes(a.shape), a.data)

----------------------------------------------------------------------------
\* Scalar functions of the numerical backend

RECURSIVE FloorLog2(_)
FloorLog2(n) == IF n <= 1 THEN 0 ELSE 1 + FloorLog2(n \div 2)

Log(w) == FloorLog2(w)
Exp(x) == 2 ^ x

\* exp of a non-positive number in fixed point with Frac fractional bits.
ExpFix(d) == IF d < 0 - Frac THEN 0 ELSE 2 ^ (Frac + d)

\* logsumexp of a non-empty sequence: amax + log(sum(exp(a - amax))).
LogSumExp(vs) ==
    LET amax == MaxSeq(vs)
    IN  amax + FloorLog2(SumSeq([k \in 1..Len(vs) |-> ExpFix(vs[k] - amax)])) - Frac

\* logsumexp(a, axis=0) of a K x N array: one value per column.
LogSumExpAxis0(a) ==
    Arr(<<a.shape[2]>>,
        [i \in 1..a.shape[2] |-> LogSumExp([k \in 1..a.shape[1] |-> At2(a, k, i)])])

Abs(x) == IF x < 0 THEN 0 - x ELSE x

\* tfd.Normal(loc, 1).log_prob at one coordinate, up to the unit.
NormalLogProb(loc, x) == 0 - (x - loc) * (x - loc) - 1

\* tfd.GeneralizedNormal(loc, 1, power).log_prob at one coordinate.
GenNormalLogProb(loc, power, x) == 0 - (Abs(x - loc) ^ power) - 1

----------------------------------------------------------------------------
\* jax.random: keys, split and the draws

\* random.split(rng): the two descendants of a key.
Split(rng) == <<Append(rng, 0), Append(rng, 1)>>

RECURSIVE Code(_)
Code(rng) == IF rng = <<>> THEN 1 ELSE 3 * Code(SubSeq(rng, 1, Len(rng) - 1)) + rng[Len(rng)] + 1

\* The e-th pseudo-random bit a key yields: a function of the key alone.
Noise(rng, e) == (Code(rng) + e + (e \div 2)) % 2

\* dist.sample((num_samples, input_dim), rng) of tfd.Normal / GeneralizedNormal.
ElementarySample(rng, loc, num_samples, input_dim) ==
    Arr(<<num_samples, input_dim>>,
        [e \in 1..(num_samples * input_dim) |-> loc + Noise(rng, e)])

\* random.multivariate_normal(rng, mean, cov, (num_samples,)).
MultivariateNormal(rng, mean, cov, num_samples) ==
    Arr(<<num_samples, Len(mean)>>,
        [e \in 1..(num_samples * Len(mean)) |->
            mean[((e - 1) % Len(mean)) + 1] + Noise(rng, e)])

\* multivariate_normal.logpdf(inputs, mean, cov): one value per row.
MvnLogpdf(inputs, mean, cov) ==
    IF Len(inputs.shape) # 2 \/ inputs.shape[2] # Len(mean) THEN Err
    ELSE Arr(<<inputs.shape[1]>>,
             [i \in 1..inputs.shape[1] |->
                 0 - SumSeq([j \in 1..Len(mean) |->
                               (At2(inputs, i, j) - mean[j]) * (At2(inputs, i, j) - mean[j])])
                   - cov])

\* The category a uniform draw u in 0..total-1 falls in, by inverse CDF
\* over the unnormalised masses; 0-based like the index jax returns.
RECURSIVE PickFrom(_, _, _)
PickFrom(masses, u, k) ==
    IF k >= Len(masses) \/ u < masses[k] THEN k - 1
    ELSE PickFrom(masses, u - masses[k], k + 1)

\* The mass random.categorical gives each category: softmax of its logits.
CategoricalMasses(logits) == [k \in 1..Len(logits) |-> Exp(logits[k])]

CategoricalPick(logits, u) == PickFrom(CategoricalMasses(logits), u, 1)

\* random.categorical(rng, logits, shape=(num_samples, 1, 1)).
Categorical(rng, logits, num_samples) ==
    LET total == SumSeq(CategoricalMasses(logits))
    IN  Arr(<<num_samples, 1, 1>>,
            [i \in 1..num_samples |->
                CategoricalPick(logits, (5 * Code(rng) + 7 * i) % total)])

\* np.take_along_axis(samples, idx, -1) for samples N x D x K and idx N x 1 x 1.
\* An index past the last candidate is clipped or filled, as the jax version has it.
TakeAlongAxis(samples, idx, mode) ==
    LET n == samples.shape[1]
        d == samples.shape[2]
        k == samples.shape[3]
    IN  Arr(<<n, d, 1>>,
            [e \in 1..(n * d) |->
                LET i == idx.data[((e - 1) \div d) + 1]
                IN  IF i < k THEN samples.data[(e - 1) * k + i + 1]
                    ELSE IF mode = "clip" THEN samples.data[(e - 1) * k + k]
                    ELSE NaN])

----------------------------------------------------------------------------
\* The Transformation protocol: two instances, Reverse and Scale

TKinds == {"Reverse", "Scale"}

\* transformation(rng, input_dim)[0]: the parameters init returns.
TransInit(tkind, rng, input_dim) == IF tkind = "Reverse" THEN <<>> ELSE <<1>>

ScaleBy(x, p) == IF x = NaN THEN NaN ELSE x * (2 ^ p)
UnscaleBy(x, p) == IF x = NaN THEN NaN ELSE x \div (2 ^ p)

\* forward(params, inputs) -> (u, log_det)
DirectFun(tkind, params, inputs) ==
    IF IsErr(inputs) THEN Err
    ELSE IF Len(inputs.shape) # 2 THEN Err
    ELSE LET n == inputs.shape[1]
             d == inputs.shape[2]
         IN  IF tkind = "Reverse"
             THEN [u |-> Arr(inputs.shape,
                             [e \in 1..(n * d) |->
                                 At2(inputs, ((e - 1) \div d) + 1, d - ((e - 1) % d))]),
                   log_det |-> Arr(<<n>>, [i \in 1..n |-> 0])]
             ELSE [u |-> Arr(inputs.shape,
                             [e \in 1..(n * d) |-> ScaleBy(inputs.data[e], params[1])]),
                   log_det |-> Arr(<<n>>, [i \in 1..n |-> params[1] * d])]

\* inverse(params, inputs) -> (x, log_det)
InverseFun(tkind, params, inputs) ==
    IF IsErr(inputs) THEN Err
    ELSE IF Len(inputs.shape) # 2 THEN Err
    ELSE LET n == inputs.shape[1]
             d == inputs.shape[2]
         IN  IF tkind = "Reverse"
             THEN [u |-> Arr(inputs.shape,
                             [e \in 1..(n * d) |->
                                 At2(inputs, ((e - 1) \div d) + 1, d - ((e - 1) % d))]),
                   log_det |-> Arr(<<n>>, [i \in 1..n |-> 0])]
             ELSE [u |-> Arr(inputs.shape,
                             [e \in 1..(n * d) |-> UnscaleBy(inputs.data[e], params[1])]),
                   log_det |-> Arr(<<n>>, [i \in 1..n |-> 0 - params[1] * d])]

----------------------------------------------------------------------------
\* Normal and GenNormal

\* dist.log_prob(inputs): elementwise.
LogProb(tr, inputs) ==
    Arr(inputs.shape,
        [e \in 1..Len(inputs.data) |->
            IF tr.kind = "Normal" THEN NormalLogProb(tr.loc, inputs.data[e])
            ELSE GenNormalLogProb(tr.loc, tr.power, inputs.data[e])])

\* log_pdf(params, inputs) == dist.log_prob(inputs).sum(1)
ElementaryLogPdf(tr, params, inputs) ==
    IF IsErr(inputs) THEN Ret(Err, <<>>)
    ELSE Ret(Sum1(LogProb(tr, inputs)), <<>>)

\* sample(rng, params, num_samples) == dist.sample((num_samples, input_dim), rng)
ElementarySampleFun(tr, rng, params, num_samples) ==
    Ret(ElementarySample(rng, tr.loc, num_samples, tr.input_dim),
        <<[e |-> "draw", rng |-> rng, what |-> "elementary"]>>)

----------------------------------------------------------------------------
\* GMM

\* The number of rounds of a loop over zip(a, b, c) and over zip(a, b).
Zip3Len(a, b, c) == MinOf(Len(a), MinOf(Len(b), Len(c)))
Zip2Len(a, b) == MinOf(Len(a), Len(b))

\* A loop that stops one component short.
GMMLogPdfRoundsShort(tr) ==
    IF Zip3Len(tr.weights, tr.means, tr.covariances) > 1
    THEN Zip3Len(tr.weights, tr.means, tr.covariances) - 1
    ELSE 1

\* for log_weight, mean, cov in zip(np.log(weights), means, covariances)
GMMLogPdfRounds(tr) == Zip3Len(tr.weights, tr.means, tr.covariances)

\* log_weight + multivariate_normal.logpdf(inputs, mean, cov)
ClusterLl(log_weight, ll) ==
    IF IsErr(ll) THEN Err
    ELSE Arr(ll.shape, [i \in 1..Len(ll.data) |-> log_weight + ll.data[i]])

\* logsumexp(np.vstack(cluster_lls), axis=0)
GMMReduce(cluster_lls) ==
    LET stacked == Vstack(cluster_lls)
    IN  IF IsErr(stacked) THEN Err ELSE LogSumExpAxis0(stacked)

GMMLogPdf(tr, params, inputs) ==
    IF IsErr(inputs) THEN Ret(Err, <<>>)
    ELSE LET cluster_lls ==
                 [k \in 1..GMMLogPdfRounds(tr) |->
                     ClusterLl(Log(tr.weights[k]),
                               MvnLogpdf(inputs, tr.means[k], tr.covariances[k]))]
         IN  Ret(GMMReduce(cluster_lls), <<>>)

\* A split that hands the incoming key on as the loop's temp_rng.
GMMSplitReuse(rng) == <<Append(rng, 0), rng>>

\* rng, temp_rng = random.split(rng)
GMMSplit(rng) == Split(rng)

\* The loop of sample over zip(means, covariances), from round k on: the key
\* left after the loop, the candidate batches and the trace.
RECURSIVE GMMSampleLoop(_, _, _, _)
GMMSampleLoop(tr, rng, num_samples, k) ==
    IF k > Zip2Len(tr.means, tr.covariances)
    THEN [rng |-> rng, cluster_samples |-> <<>>, ev |-> <<>>]
    ELSE LET keys == GMMSplit(rng)
             cluster_sample ==
                 MultivariateNormal(keys[2], tr.means[k], tr.covariances[k], num_samples)
             rest == GMMSampleLoop(tr, keys[1], num_samples, k + 1)
         IN  [rng |-> rest.rng,
              cluster_samples |-> <<cluster_sample>> \o rest.cluster_samples,
              ev |-> <<[e |-> "split", rng |-> rng],
                       [e |-> "draw", rng |-> keys[2], what |-> "component"]>>
                     \o rest.ev]

GMMSample(tr, rng, params, num_samples, mode) ==
    LET loop == GMMSampleLoop(tr, rng, num_samples, 1)
        samples == Dstack(loop.cluster_samples)
        idx == Categorical(loop.rng, tr.weights, num_samples)
    IN  Ret(Squeeze(TakeAlongAxis(samples, idx, mode)),
            loop.ev
            \o <<[e |-> "draw", rng |-> loop.rng, what |-> "categorical"]>>
            \o [i \in 1..num_samples |->
                   [e |-> "select", idx |-> idx.data[i],
                    candidates |-> Len(loop.cluster_samples)]])

----------------------------------------------------------------------------
\* Flow

\* transformation_rng, prior_rng = random.split(rng)
FlowInitSplit(rng) == Split(rng)

\* Parameters that also carry the prior's.
FlowInitParamsBoth(params, prior_params) == params \o prior_params \o <<0>>

\* return params, log_pdf, sample: the parameters init_fun returns.
FlowInitParams(params, prior_params) == params

\* The parameters log_pdf and sample hand to the prior.
FlowPriorArg(params, prior_params) == prior_params

\* A sum that is reduced across the samples.
FlowLogPdfReturnReduced(log_probs, log_det) ==
    IF IsErr(log_probs) \/ IsErr(log_det) THEN Err ELSE AddReduced(log_probs, log_det)

\* A sum that leaves the log-determinant out.
FlowLogPdfReturnNoDet(log_probs, log_det) == log_probs

\* return log_probs + log_det
FlowLogPdfReturn(log_probs, log_det) == Add(log_probs, log_det)

\* sample pushing the prior's draw through the forward map.
FlowSampleTransformForward(tkind, params, prior_samples) ==
    [res |-> DirectFun(tkind, params, prior_samples),
     ev |-> <<[e |-> "direct_fun", params |-> params]>>]

\* inverse_fun(params, prior_samples)
FlowSampleTransform(tkind, params, prior_samples) ==
    [res |-> InverseFun(tkind, params, prior_samples),
     ev |-> <<[e |-> "inverse_fun", params |-> params]>>]

\* inverse_fun(params, prior_samples)[0]
FlowSampleReturn(pair) == IF IsErr(pair) THEN Err ELSE pair.u

----------------------------------------------------------------------------
\* The factories and the triplets init_fun returns.  A triplet is the record
\* of what its closures hold; its field params is the first component.

RECURSIVE InitFun(_, _, _)
InitFun(factory, rng, input_dim) ==
    CASE factory.kind = "Normal" ->
            Ret([kind |-> "Normal", loc |-> factory.loc,
                 input_dim |-> input_dim, params |-> <<>>], <<>>)
      [] factory.kind = "GenNormal" ->
            Ret([kind |-> "GenNormal", loc |-> factory.loc, power |-> factory.power,
                 input_dim |-> input_dim, params |-> <<>>], <<>>)
      [] factory.kind = "GMM" ->
            Ret([kind |-> "GMM", means |-> factory.means,
                 covariances |-> factory.covariances, weights |-> factory.weights,
                 input_dim |-> input_dim, params |-> <<>>], <<>>)
      [] factory.kind = "Flow" ->
            LET keys == FlowInitSplit(rng)
                params == TransInit(factory.transformation, keys[1], input_dim)
                prior == InitFun(factory.prior, keys[2], input_dim)
            IN  Ret([kind |-> "Flow",
                     params |-> FlowInitParams(params, prior.out.params),
                     transformation |-> factory.transformation,
                     prior_params |-> prior.out.params,
                     prior |-> prior.out,
                     input_dim |-> input_dim],
                    <<[e |-> "split", rng |-> rng],
                      [e |-> "init", who |-> "transformation", rng |-> keys[1]],
                      [e |-> "init", who |-> "prior", rng |-> keys[2]]>>
                    \o prior.ev)

RECURSIVE LogPdf(_, _, _)
LogPdf(tr, params, inputs) ==
    CASE tr.kind \in {"Normal", "GenNormal"} -> ElementaryLogPdf(tr, params, inputs)
      [] tr.kind = "GMM" -> GMMLogPdf(tr, params, inputs)
      [] tr.kind = "Flow" ->
            LET pair == DirectFun(tr.transformation, params, inputs)
                arg == FlowPriorArg(params, tr.prior_params)
                log_probs == LogPdf(tr.prior, arg, IF IsErr(pair) THEN Err ELSE pair.u)
            IN  Ret(IF IsErr(pair) THEN Err
                    ELSE FlowLogPdfReturn(log_probs.out, pair.log_det),
                    <<[e |-> "direct_fun", params |-> params],
                      [e |-> "prior_log_pdf", params |-> arg]>>
                    \o log_probs.ev)

RECURSIVE Sample(_, _, _, _, _)
Sample(tr, rng, params, num_samples, mode) ==
    CASE tr.kind \in {"Normal", "GenNormal"} ->
            ElementarySampleFun(tr, rng, params, num_samples)
      [] tr.kind = "GMM" -> GMMSample(tr, rng, params, num_samples, mode)
      [] tr.kind = "Flow" ->
            LET arg == FlowPriorArg(params, tr.prior_params)
                prior_samples == Sample(tr.prior, rng, arg, num_samples, mode)
                inv == FlowSampleTransform(tr.transformation, params, prior_samples.out)
            IN  Ret(FlowSampleReturn(inv.res),
                    <<[e |-> "prior_sample", params |-> arg]>>
                    \o prior_samples.ev \o inv.ev)

----------------------------------------------------------------------------
\* What a caller builds and passes

Normals == [kind : {"Normal"}, loc : {0, 1}]
GenNormals == [kind : {"GenNormal"}, loc : {0}, power : {1, 2}]

\* The k-th mean of a d-dimensional mixture, its covariance and the weights
\* with one heavy component (or none).
MeansOf(d, k) == [c \in 1..k |-> [j \in 1..d |-> c - 1]]
CovariancesOf(k) == [c \in 1..k |-> c]
WeightsOf(k, heavy) == [c \in 1..k |-> IF c = heavy THEN 4 ELSE 1]

GMMs ==
    {[kind |-> "GMM", means |-> MeansOf(d, km), covariances |-> CovariancesOf(kc),
      weights |-> WeightsOf(kw, heavy)] :
        d \in 1..MaxDim, km \in 1..MaxComp, kc \in 1..MaxComp,
        kw \in 1..MaxComp, heavy \in 0..1}

ConsistentGMMs ==
    {g \in GMMs : Len(g.means) = Len(g.covariances) /\ Len(g.means) = Len(g.weights)}

InnerFlows == [kind : {"Flow"}, transformation : TKinds, prior : Normals]

Flows ==
    [kind : {"Flow"}, transformation : TKinds,
     prior : Normals \cup GenNormals \cup ConsistentGMMs \cup InnerFlows]

Factories == Normals \cup GenNormals \cup GMMs \cup Flows

Batches ==
    UNION {[shape : {<<n, d>>}, data : [1..(n * d) -> Vals]] :
              n \in 1..MaxN, d \in 1..MaxDim}

\* The parameter values a caller passes to the closures of a triplet.
CallerParams(tr) ==
    IF tr.kind = "Flow" /\ tr.transformation = "Scale"
    THEN {<<p>> : p \in 0..MaxParam}
    ELSE {<<>>}

----------------------------------------------------------------------------
\* The state machine: a caller constructs a factory, calls init_fun once and
\* then calls log_pdf and sample of the triplet, any number of times.

VARIABLES factory, pc, triplet, call, out, ev

vars == <<factory, pc, triplet, call, out, ev>>

NoTriplet == [kind |-> "none"]
NoCall == [op |-> "none"]
NoOut == [none |-> TRUE]

Init ==
    /\ factory \in Factories
    /\ pc = "constructed"
    /\ triplet = NoTriplet
    /\ call = NoCall
    /\ out = NoOut
    /\ ev = <<>>

\* params, log_pdf, sample = init_fun(rng, input_dim)
CallInitFun ==
    /\ pc = "constructed"
    /\ \E rng \in Keys, input_dim \in 1..MaxDim :
          LET r == InitFun(factory, rng, input_dim)
          IN  /\ triplet' = r.out
              /\ call' = [op |-> "init_fun", rng |-> rng, input_dim |-> input_dim]
              /\ out' = [params |-> r.out.params]
              /\ ev' = r.ev
    /\ pc' = "returned"
    /\ UNCHANGED factory

\* log_pdf(params, inputs)
CallLogPdf ==
    /\ pc = "ready"
    /\ \E params \in CallerParams(triplet), inputs \in Batches :
          LET r == LogPdf(triplet, params, inputs)
          IN  /\ call' = [op |-> "log_pdf", params |-> params, inputs |-> inputs]
              /\ out' = r.out
              /\ ev' = r.ev
    /\ pc' = "returned"
    /\ UNCHANGED <<factory, triplet>>

\* sample(rng, params, num_samples)
CallSample ==
    /\ pc = "ready"
    /\ \E rng \in Keys, params \in CallerParams(triplet), num_samples \in 1..MaxN,
          mode \in {"clip", "fill"} :
          LET r == Sample(triplet, rng, params, num_samples, mode)
          IN  /\ call' = [op |-> "sample", rng |-> rng, params |-> params,
                          num_samples |-> num_samples, mode |-> mode]
              /\ out' = r.out
              /\ ev' = r.ev
    /\ pc' = "returned"
    /\ UNCHANGED <<factory, triplet>>

\* The caller takes the result; the triplet is ready for the next call.
Return ==
    /\ pc = "returned"
    /\ pc' = "ready"
    /\ call' = NoCall
    /\ out' = NoOut
    /\ ev' = <<>>
    /\ UNCHANGED <<factory, triplet>>

Next == CallInitFun \/ CallLogPdf \/ CallSample \/ Return

Spec == Init /\ [][Next]_vars

----------------------------------------------------------------------------
\* Claims about Flow

Returned(op) == pc = "returned" /\ call.op = op

\* The number of events of kind k in a trace.
CountEv(trace, k) == Cardinality({i \in 1..Len(trace) : trace[i].e = k})

\* C1: Flow.log_pdf(p, x) returns the length-N vector whose i-th entry is
\* prior_log_pdf(prior_params, u)[i] + log_det[i] with (u, log_det) =
\* forward(p, x); the sum is per sample, never reduced across the samples.
C1_FlowLogPdfPerSample ==
    (Returned("log_pdf") /\ triplet.kind = "Flow") =>
        LET fwd == DirectFun(triplet.transformation, call.params, call.inputs)
            prior_lp == LogPdf(triplet.prior, triplet.prior_params, fwd.u).out
            n == call.inputs.shape[1]
        IN  IF IsErr(prior_lp) THEN IsErr(out)
            ELSE /\ ~IsErr(out)
                 /\ out.shape = <<n>>
                 /\ Len(out.data) = n
                 /\ \A i \in 1..n : out.data[i] = prior_lp.data[i] + fwd.log_det.data[i]

\* A Flow's log_pdf has returned for two samples whose densities differ and
\* whose log-determinant is not zero.
C1_Witness ==
    /\ Returned("log_pdf") /\ triplet.kind = "Flow"
    /\ ~IsErr(out)
    /\ call.inputs.shape[1] = 2
    /\ out.data[1] # out.data[2]
    /\ DirectFun(triplet.transformation, call.params, call.inputs).log_det.data[1] # 0

\* C2: Flow.sample(rng, p, n) returns the first component of
\* inverse(p, prior_sample(rng, prior_params, n)); the log-determinant is
\* discarded and forward is never invoked during sample.
C2_FlowSampleIsInverseOfPriorSample ==
    (Returned("sample") /\ triplet.kind = "Flow") =>
        LET prior_samples ==
                Sample(triplet.prior, call.rng, triplet.prior_params,
                       call.num_samples, call.mode).out
            inv == InverseFun(triplet.transformation, call.params, prior_samples)
        IN  /\ IF IsErr(inv) THEN IsErr(out) ELSE out = inv.u
            /\ CountEv(ev, "direct_fun") = 0

\* A Flow's sample has returned a batch that its inverse map changed.
C2_Witness ==
    /\ Returned("sample") /\ triplet.kind = "Flow"
    /\ ~IsErr(out)
    /\ call.num_samples = 2
    /\ out # Sample(triplet.prior, call.rng, triplet.prior_params,
                    call.num_samples, call.mode).out
    /\ CountEv(ev, "inverse_fun") > 0

\* C3: the parameters Flow's init returns are the transformation's alone;
\* no call changes the triplet, every call evaluates the prior with the
\* prior_params captured at init, and the caller's value goes to forward /
\* inverse only.
C3_ParamsAreTransformationOnly ==
    [][/\ (triplet.kind = "Flow" => triplet' = triplet)
       /\ (triplet'.kind = "Flow" /\ call'.op = "init_fun") =>
             /\ triplet'.params =
                    TransInit(factory.transformation, Split(call'.rng)[1], call'.input_dim)
             /\ out'.params = triplet'.params
             /\ triplet'.prior_params =
                    InitFun(factory.prior, Split(call'.rng)[2], call'.input_dim).out.params
       /\ (triplet'.kind = "Flow" /\ call'.op = "log_pdf") =>
             /\ ev'[1] = [e |-> "direct_fun", params |-> call'.params]
             /\ ev'[2] = [e |-> "prior_log_pdf", params |-> triplet.prior_params]
       /\ (triplet'.kind = "Flow" /\ call'.op = "sample") =>
             /\ ev'[1] = [e |-> "prior_sample", params |-> triplet.prior_params]
             /\ ev'[Len(ev')] = [e |-> "inverse_fun", params |-> call'.params]
      ]_vars

\* A Flow over a nested Flow has been called with parameters that differ
\* from the ones init returned and from the prior's.
C3_Witness ==
    /\ Returned("log_pdf") /\ triplet.kind = "Flow"
    /\ triplet.prior.kind = "Flow"
    /\ call.params # triplet.params
    /\ call.params # triplet.prior_params
    /\ triplet.prior_params # <<>>
    /\ ~IsErr(out)

\* C4: outer = Flow(T_out, Flow(T_in, P)) is a Distribution: its log_pdf is
\* P.log_pdf(P_params, u2) + log_det_out + log_det_in with p_in the inner
\* transformation's init parameters, and its sample is
\* T_out.inverse(p_out, T_in.inverse(p_in, P.sample(rng, P_params, n))[0])[0].
C4_FlowAsPrior ==
    (pc = "returned" /\ factory.kind = "Flow" /\ factory.prior.kind = "Flow") =>
        LET t_out == factory.transformation
            t_in == factory.prior.transformation
            p_in == TransInit(t_in, <<>>, triplet.input_dim)
            P == triplet.prior.prior
        IN  CASE call.op = "init_fun" ->
                    DOMAIN out = {"params"} /\ triplet.kind = "Flow"
              [] call.op = "log_pdf" ->
                    LET f1 == DirectFun(t_out, call.params, call.inputs)
                        f2 == DirectFun(t_in, p_in, f1.u)
                        lp == ElementaryLogPdf(P, P.params, f2.u).out
                        n == call.inputs.shape[1]
                    IN  /\ out.shape = <<n>>
                        /\ \A i \in 1..n :
                              out.data[i] =
                                  lp.data[i] + f1.log_det.data[i] + f2.log_det.data[i]
              [] call.op = "sample" ->
                    LET u == ElementarySampleFun(P, call.rng, P.params,
                                                 call.num_samples).out
                        x1 == InverseFun(t_in, p_in, u)
                        x2 == InverseFun(t_out, call.params, x1.u)
                    IN  out = x2.u

\* A Flow over a Flow, both with non-zero log-determinants, has returned a
\* log_pdf.
C4_Witness ==
    /\ Returned("log_pdf")
    /\ factory.kind = "Flow" /\ factory.prior.kind = "Flow"
    /\ factory.transformation = "Scale" /\ factory.prior.transformation = "Scale"
    /\ call.params = <<2>>
    /\ call.inputs.shape = <<2, 2>>
    /\ out.data[1] # out.data[2]

----------------------------------------------------------------------------
\* Claims about the base distributions

Consistent(g) == Len(g.means) = Len(g.covariances) /\ Len(g.means) = Len(g.weights)

\* A triplet whose mixture, if it has one, has input_dim-dimensional means
\* and as many covariances and weights as means.
RECURSIVE MatchesInputDim(_)
MatchesInputDim(tr) ==
    CASE tr.kind = "GMM" -> Consistent(tr) /\ Len(tr.means[1]) = tr.input_dim
      [] tr.kind = "Flow" -> MatchesInputDim(tr.prior)
      [] OTHER -> TRUE

\* C5: sample(rng, params, K) of a triplet made with input_dim = D returns a
\* batch of shape exactly K x D, for every K >= 1 and every D >= 1.
C5_SampleShapeIsKByD ==
    (Returned("sample") /\ MatchesInputDim(triplet)) =>
        /\ ~IsErr(out)
        /\ out.shape = <<call.num_samples, triplet.input_dim>>

\* The number of uniform draws that random.categorical maps to category k.
CategoryCount(logits, k) ==
    Cardinality({u \in 0..(SumSeq(CategoricalMasses(logits)) - 1) :
                    CategoricalPick(logits, u) = k - 1})

\* C6: GMM.sample selects component k with probability weights[k] /
\* sum(weights), the weighting log_pdf applies through log(weights[k]).
C6_SelectionProportionalToWeights ==
    (Returned("sample") /\ triplet.kind = "GMM" /\ Consistent(triplet)) =>
        \A i, j \in 1..Len(triplet.weights) :
            CategoryCount(triplet.weights, i) * triplet.weights[j]
                = CategoryCount(triplet.weights, j) * triplet.weights[i]

\* C7: log_pdf of a Normal or GenNormal made with input_dim = D fails with a
\* shape mismatch on an N x D' batch with D' # D; it returns no vector.
C7_LogPdfRejectsWrongDim ==
    (/\ Returned("log_pdf")
     /\ triplet.kind \in {"Normal", "GenNormal"}
     /\ call.inputs.shape[2] # triplet.input_dim) => IsErr(out)

\* C8: GMM.log_pdf of a mixture of K components returns the length-N vector
\* whose i-th entry is the log-sum-exp over k = 1..K of log(weights[k]) +
\* multivariate_log_density(batch[i]; means[k], covariances[k]).
C8_GMMLogPdfIsLogSumExpOverComponents ==
    (/\ Returned("log_pdf")
     /\ triplet.kind = "GMM"
     /\ Consistent(triplet)
     /\ call.inputs.shape[2] = Len(triplet.means[1])) =>
        LET n == call.inputs.shape[1]
            d == call.inputs.shape[2]
            term(i, k) ==
                Log(triplet.weights[k])
                + MvnLogpdf(Arr(<<1, d>>, Row(call.inputs, i)),
                            triplet.means[k], triplet.covariances[k]).data[1]
        IN  /\ ~IsErr(out)
            /\ out.shape = <<n>>
            /\ Len(out.data) = n
            /\ \A i \in 1..n :
                  out.data[i] = LogSumExp([k \in 1..Len(triplet.weights) |-> term(i, k)])

\* log_pdf of a two-component mixture has returned for two different
\* samples, and at one of them both components count: the result exceeds
\* either term.
C8_Witness ==
    /\ Returned("log_pdf") /\ triplet.kind = "GMM" /\ Consistent(triplet)
    /\ Len(triplet.weights) = 2
    /\ ~IsErr(out)
    /\ call.inputs.shape[1] = 2
    /\ Row(call.inputs, 1) # Row(call.inputs, 2)
    /\ \E i \in 1..2 :
          \A k \in 1..2 :
              out.data[i] >
                  Log(triplet.weights[k])
                  + MvnLogpdf(call.inputs, triplet.means[k], triplet.covariances[k]).data[i]

\* C9: a GMM whose means, covariances and weights differ in number fails
\* with a shape mismatch; no call returns a value from a truncated subset
\* of the components, and sample selects no index without a candidate.
C9_InconsistentCountsRejected ==
    (/\ pc = "returned"
     /\ call.op \in {"log_pdf", "sample"}
     /\ triplet.kind = "GMM"
     /\ ~Consistent(triplet)) =>
        /\ IsErr(out)
        /\ \A i \in 1..Len(ev) : ev[i].e = "select" => ev[i].idx < ev[i].candidates

\* Event i of the trace draws with a key.
IsDraw(trace, i) == trace[i].e = "draw"

\* C10: Flow's init splits its key once and initialises the transformation
\* and the prior with the two descendants; GMM.sample draws each component
\* with the second descendant of a split of its own and the categorical
\* index with a key none of them used; no key is drawn from twice and no
\* key is drawn from after it was split.
C10_KeysAreThreaded ==
    (pc = "returned") =>
        /\ \A i, j \in 1..Len(ev) :
              (i < j /\ IsDraw(ev, i) /\ IsDraw(ev, j)) => ev[i].rng # ev[j].rng
        /\ \A i, j \in 1..Len(ev) :
              (i < j /\ ev[i].e = "split" /\ IsDraw(ev, j)) => ev[i].rng # ev[j].rng
        /\ (call.op = "init_fun" /\ triplet.kind = "Flow") =>
              /\ ev[1] = [e |-> "split", rng |-> call.rng]
              /\ ev[2].e = "init" /\ ev[2].who = "transformation"
              /\ ev[3].e = "init" /\ ev[3].who = "prior"
              /\ {ev[2].rng, ev[3].rng} = {Append(call.rng, 0), Append(call.rng, 1)}
              /\ CountEv(SubSeq(ev, 1, 3), "split") = 1
        /\ (call.op = "sample" /\ triplet.kind = "GMM") =>
              LET K == Zip2Len(triplet.means, triplet.covariances)
              IN  /\ Len(ev) = 2 * K + 1 + call.num_samples
                  /\ \A k \in 1..K :
                        /\ ev[2 * k - 1].e = "split"
                        /\ IsDraw(ev, 2 * k) /\ ev[2 * k].what = "component"
                        /\ ev[2 * k].rng \in
                              {Append(ev[2 * k - 1].rng, 0), Append(ev[2 * k - 1].rng, 1)}
                  /\ IsDraw(ev, 2 * K + 1) /\ ev[2 * K + 1].what = "categorical"
                  /\ \A k \in 1..K : ev[2 * K + 1].rng # ev[2 * k].rng

\* sample of a mixture of two components has returned: two splits, two
\* component draws and the categorical draw.
C10_Witness ==
    /\ Returned("sample") /\ triplet.kind = "GMM"
    /\ Zip2Len(triplet.means, triplet.covariances) = 2
    /\ CountEv(ev, "split") = 2
    /\ CountEv(ev, "draw") = 3

\* init_fun of a Flow over a Flow has returned: each level split its key.
C10_WitnessInit ==
    /\ Returned("init_fun") /\ triplet.kind = "Flow" /\ triplet.prior.kind = "Flow"
    /\ CountEv(ev, "split") = 2

====
